---- MODULE Spec2Model ----
(***************************************************************************)
(* Model of the double-ended run-length-encoding iterator adapter          *)
(* RunLengthEncode<I, T> of src/lib.rs.  The wrapped source is a finite    *)
(* double-ended iterator over items whose equality looks at field a only   *)
(* (the Item type of src/tests.rs); field b carries the item's position so *)
(* that the occurrence surfaced as a representative can be told apart.     *)
(***************************************************************************)
EXTENDS Integers, Sequences, FiniteSets

\* ---------------------------------------------------------------- bounds
MaxLen == 5
NumKeys == 3
MaxExtra == 2

Keys == 1..NumKeys

Sources == UNION {[1..n -> Keys] : n \in 0..MaxLen}

\* ----------------------------------------------------------------- state
VARIABLES source, iter, count, current_front, current_back, calls

vars == <<source, iter, count, current_front, current_back, calls>>

\* Option<T>: None is the empty sequence, Some(x) is <<x>>.
None == <<>>

Some(x) == <<x>>

IsSome(o) == Len(o) = 1

\* The i-th item of the source: a is the compared field, b the ignored one.
Item(i) == [a |-> source[i], b |-> i]

\* impl PartialEq for Item: only field a is compared.
ItemEq(x, y) == x.a = y.a

\* Option<T> == Option<T>, derived from T's equality.
OptEq(x, y) ==
  IF IsSome(x) /\ IsSome(y) THEN ItemEq(x[1], y[1])
  ELSE ~IsSome(x) /\ ~IsSome(y)

\* The adapter's fields as one record.
State ==
  [iter |-> iter, count |-> count,
   current_front |-> current_front, current_back |-> current_back]

\* Fuse<I>::next over the remaining range lo..hi of the source.
FuseNext(it) ==
  IF it.done THEN [it |-> it, x |-> None]
  ELSE IF it.lo > it.hi THEN [it |-> [it EXCEPT !.done = TRUE], x |-> None]
  ELSE [it |-> [it EXCEPT !.lo = @ + 1], x |-> Some(Item(it.lo))]

\* Fuse<I>::next_back over the remaining range lo..hi of the source.
FuseNextBack(it) ==
  IF it.done THEN [it |-> it, x |-> None]
  ELSE IF it.lo > it.hi THEN [it |-> [it EXCEPT !.done = TRUE], x |-> None]
  ELSE [it |-> [it EXCEPT !.hi = @ - 1], x |-> Some(Item(it.hi))]

Pair(c, item) == [count |-> c, item |-> item]

\* ------------------------------------------------- next: the Some(_) arms
NextSomeKeepCount(st, item) ==
  IF OptEq(Some(item), st.current_front)
  THEN [st |-> st, ret |-> None, done |-> FALSE]
  ELSE IF IsSome(st.current_front)
  THEN [st |-> [st EXCEPT !.current_front = Some(item), !.count = 1],
        ret |-> Some(Pair(st.count, st.current_front[1])), done |-> TRUE]
  ELSE [st |-> [st EXCEPT !.current_front = Some(item), !.count = 1],
        ret |-> None, done |-> FALSE]

NextSomeLatestItem(st, item) ==
  IF OptEq(Some(item), st.current_front)
  THEN [st |-> [st EXCEPT !.count = @ + 1, !.current_front = Some(item)],
        ret |-> None, done |-> FALSE]
  ELSE IF IsSome(st.current_front)
  THEN [st |-> [st EXCEPT !.current_front = Some(item), !.count = 1],
        ret |-> Some(Pair(st.count, st.current_front[1])), done |-> TRUE]
  ELSE [st |-> [st EXCEPT !.current_front = Some(item), !.count = 1],
        ret |-> None, done |-> FALSE]

NextSomeZeroStart(st, item) ==
  IF OptEq(Some(item), st.current_front)
  THEN [st |-> [st EXCEPT !.count = @ + 1], ret |-> None, done |-> FALSE]
  ELSE IF IsSome(st.current_front)
  THEN [st |-> [st EXCEPT !.current_front = Some(item), !.count = 1],
        ret |-> Some(Pair(st.count, st.current_front[1])), done |-> TRUE]
  ELSE [st |-> [st EXCEPT !.current_front = Some(item)],
        ret |-> None, done |-> FALSE]

NextSome(st, item) ==
  IF OptEq(Some(item), st.current_front)
  THEN [st |-> [st EXCEPT !.count = @ + 1], ret |-> None, done |-> FALSE]
  ELSE IF IsSome(st.current_front)
  THEN [st |-> [st EXCEPT !.current_front = Some(item), !.count = 1],
        ret |-> Some(Pair(st.count, st.current_front[1])), done |-> TRUE]
  ELSE [st |-> [st EXCEPT !.current_front = Some(item), !.count = 1],
        ret |-> None, done |-> FALSE]

\* --------------------------------------------------- next: the None arm
NextNoneNoFallback(st) ==
  IF IsSome(st.current_front)
  THEN IF IsSome(st.current_back)
       THEN IF ItemEq(st.current_front[1], st.current_back[1])
            THEN [st |-> [st EXCEPT !.current_front = None,
                                    !.current_back = None],
                  ret |-> Some(Pair(st.count + 1, st.current_front[1])),
                  done |-> TRUE]
            ELSE [st |-> [st EXCEPT !.current_front = None],
                  ret |-> Some(Pair(st.count, st.current_front[1])),
                  done |-> TRUE]
       ELSE [st |-> [st EXCEPT !.current_front = None],
             ret |-> Some(Pair(st.count, st.current_front[1])),
             done |-> TRUE]
  ELSE [st |-> st, ret |-> None, done |-> TRUE]

NextNoneMergeBackItem(st) ==
  IF IsSome(st.current_front)
  THEN IF IsSome(st.current_back)
       THEN IF ItemEq(st.current_front[1], st.current_back[1])
            THEN [st |-> [st EXCEPT !.current_front = None,
                                    !.current_back = None],
                  ret |-> Some(Pair(st.count + 1, st.current_back[1])),
                  done |-> TRUE]
            ELSE [st |-> [st EXCEPT !.current_front = None],
                  ret |-> Some(Pair(st.count, st.current_front[1])),
                  done |-> TRUE]
       ELSE [st |-> [st EXCEPT !.current_front = None],
             ret |-> Some(Pair(st.count, st.current_front[1])),
             done |-> TRUE]
  ELSE IF IsSome(st.current_back)
  THEN [st |-> [st EXCEPT !.current_back = None],
        ret |-> Some(Pair(1, st.current_back[1])), done |-> TRUE]
  ELSE [st |-> st, ret |-> None, done |-> TRUE]

NextNoneCountsNone(st) ==
  IF IsSome(st.current_front)
  THEN IF IsSome(st.current_back)
       THEN IF ItemEq(st.current_front[1], st.current_back[1])
            THEN [st |-> [st EXCEPT !.current_front = None,
                                    !.current_back = None],
                  ret |-> Some(Pair(st.count + 1, st.current_front[1])),
                  done |-> TRUE]
            ELSE [st |-> [st EXCEPT !.current_front = None],
                  ret |-> Some(Pair(st.count, st.current_front[1])),
                  done |-> TRUE]
       ELSE [st |-> [st EXCEPT !.current_front = None],
             ret |-> Some(Pair(st.count, st.current_front[1])),
             done |-> TRUE]
  ELSE IF IsSome(st.current_back)
  THEN [st |-> [st EXCEPT !.current_back = None],
        ret |-> Some(Pair(1, st.current_back[1])), done |-> TRUE]
  ELSE [st |-> [st EXCEPT !.count = @ + 1], ret |-> None, done |-> TRUE]

NextNoneFallbackCount(st) ==
  IF IsSome(st.current_front)
  THEN IF IsSome(st.current_back)
       THEN IF ItemEq(st.current_front[1], st.current_back[1])
            THEN [st |-> [st EXCEPT !.current_front = None,
                                    !.current_back = None],
                  ret |-> Some(Pair(st.count + 1, st.current_front[1])),
                  done |-> TRUE]
            ELSE [st |-> [st EXCEPT !.current_front = None],
                  ret |-> Some(Pair(st.count, st.current_front[1])),
                  done |-> TRUE]
       ELSE [st |-> [st EXCEPT !.current_front = None],
             ret |-> Some(Pair(st.count, st.current_front[1])),
             done |-> TRUE]
  ELSE IF IsSome(st.current_back)
  THEN [st |-> [st EXCEPT !.current_back = None],
        ret |-> Some(Pair(st.count, st.current_back[1])), done |-> TRUE]
  ELSE [st |-> st, ret |-> None, done |-> TRUE]

NextNoneMergeKeepBack(st) ==
  IF IsSome(st.current_front)
  THEN IF IsSome(st.current_back)
       THEN IF ItemEq(st.current_front[1], st.current_back[1])
            THEN [st |-> [st EXCEPT !.current_front = None],
                  ret |-> Some(Pair(st.count + 1, st.current_front[1])),
                  done |-> TRUE]
            ELSE [st |-> [st EXCEPT !.current_front = None],
                  ret |-> Some(Pair(st.count, st.current_front[1])),
                  done |-> TRUE]
       ELSE [st |-> [st EXCEPT !.current_front = None],
             ret |-> Some(Pair(st.count, st.current_front[1])),
             done |-> TRUE]
  ELSE IF IsSome(st.current_back)
  THEN [st |-> [st EXCEPT !.current_back = None],
        ret |-> Some(Pair(1, st.current_back[1])), done |-> TRUE]
  ELSE [st |-> st, ret |-> None, done |-> TRUE]

NextNoneDropBack(st) ==
  IF IsSome(st.current_front)
  THEN IF IsSome(st.current_back)
       THEN IF ItemEq(st.current_front[1], st.current_back[1])
            THEN [st |-> [st EXCEPT !.current_front = None,
                                    !.current_back = None],
                  ret |-> Some(Pair(st.count + 1, st.current_front[1])),
                  done |-> TRUE]
            ELSE [st |-> [st EXCEPT !.current_front = None,
                                    !.current_back = None],
                  ret |-> Some(Pair(st.count, st.current_front[1])),
                  done |-> TRUE]
       ELSE [st |-> [st EXCEPT !.current_front = None],
             ret |-> Some(Pair(st.count, st.current_front[1])),
             done |-> TRUE]
  ELSE IF IsSome(st.current_back)
  THEN [st |-> [st EXCEPT !.current_back = None],
        ret |-> Some(Pair(1, st.current_back[1])), done |-> TRUE]
  ELSE [st |-> st, ret |-> None, done |-> TRUE]

NextNoneKeepFront(st) ==
  IF IsSome(st.current_front)
  THEN IF IsSome(st.current_back)
       THEN IF ItemEq(st.current_front[1], st.current_back[1])
            THEN [st |-> [st EXCEPT !.current_front = None,
                                    !.current_back = None],
                  ret |-> Some(Pair(st.count + 1, st.current_front[1])),
                  done |-> TRUE]
            ELSE [st |-> st,
                  ret |-> Some(Pair(st.count, st.current_front[1])),
                  done |-> TRUE]
       ELSE [st |-> st,
             ret |-> Some(Pair(st.count, st.current_front[1])),
             done |-> TRUE]
  ELSE IF IsSome(st.current_back)
  THEN [st |-> [st EXCEPT !.current_back = None],
        ret |-> Some(Pair(1, st.current_back[1])), done |-> TRUE]
  ELSE [st |-> st, ret |-> None, done |-> TRUE]

NextNone(st) ==
  IF IsSome(st.current_front)
  THEN IF IsSome(st.current_back)
       THEN IF ItemEq(st.current_front[1], st.current_back[1])
            THEN [st |-> [st EXCEPT !.current_front = None,
                                    !.current_back = None],
                  ret |-> Some(Pair(st.count + 1, st.current_front[1])),
                  done |-> TRUE]
            ELSE [st |-> [st EXCEPT !.current_front = None],
                  ret |-> Some(Pair(st.count, st.current_front[1])),
                  done |-> TRUE]
       ELSE [st |-> [st EXCEPT !.current_front = None],
             ret |-> Some(Pair(st.count, st.current_front[1])),
             done |-> TRUE]
  ELSE IF IsSome(st.current_back)
  THEN [st |-> [st EXCEPT !.current_back = None],
        ret |-> Some(Pair(1, st.current_back[1])), done |-> TRUE]
  ELSE [st |-> st, ret |-> None, done |-> TRUE]

\* ------------------------------------------------------ next: the loop
RECURSIVE NextLoop(_)
NextLoop(st) ==
  LET r == FuseNext(st.iter)
      st1 == [st EXCEPT !.iter = r.it]
  IN IF ~IsSome(r.x) THEN NextNone(st1)
     ELSE LET s == NextSome(st1, r.x[1])
          IN IF s.done THEN s ELSE NextLoop(s.st)

\* -------------------------------------------- next_back: the Some(_) arms
NextBackSomeFinalizeNew(st, item) ==
  IF OptEq(Some(item), st.current_back)
  THEN [st |-> [st EXCEPT !.count = @ + 1], ret |-> None, done |-> FALSE]
  ELSE IF IsSome(st.current_back)
  THEN [st |-> [st EXCEPT !.current_back = Some(item), !.count = 1],
        ret |-> Some(Pair(st.count, item)), done |-> TRUE]
  ELSE [st |-> [st EXCEPT !.current_back = Some(item), !.count = 1],
        ret |-> None, done |-> FALSE]

NextBackSome(st, item) ==
  IF OptEq(Some(item), st.current_back)
  THEN [st |-> [st EXCEPT !.count = @ + 1], ret |-> None, done |-> FALSE]
  ELSE IF IsSome(st.current_back)
  THEN [st |-> [st EXCEPT !.current_back = Some(item), !.count = 1],
        ret |-> Some(Pair(st.count, st.current_back[1])), done |-> TRUE]
  ELSE [st |-> [st EXCEPT !.current_back = Some(item), !.count = 1],
        ret |-> None, done |-> FALSE]

\* ----------------------------------------------- next_back: the None arm
NextBackNoneKeepBack(st) ==
  IF IsSome(st.current_back)
  THEN IF IsSome(st.current_front)
       THEN IF ItemEq(st.current_front[1], st.current_back[1])
            THEN [st |-> [st EXCEPT !.current_back = None,
                                    !.current_front = None],
                  ret |-> Some(Pair(st.count + 1, st.current_back[1])),
                  done |-> TRUE]
            ELSE [st |-> st,
                  ret |-> Some(Pair(st.count, st.current_back[1])),
                  done |-> TRUE]
       ELSE [st |-> st,
             ret |-> Some(Pair(st.count, st.current_back[1])),
             done |-> TRUE]
  ELSE IF IsSome(st.current_front)
  THEN [st |-> [st EXCEPT !.current_front = None],
        ret |-> Some(Pair(1, st.current_front[1])), done |-> TRUE]
  ELSE [st |-> st, ret |-> None, done |-> TRUE]

NextBackNoneMergeKeepFront(st) ==
  IF IsSome(st.current_back)
  THEN IF IsSome(st.current_front)
       THEN IF ItemEq(st.current_front[1], st.current_back[1])
            THEN [st |-> [st EXCEPT !.current_back = None],
                  ret |-> Some(Pair(st.count + 1, st.current_back[1])),
                  done |-> TRUE]
            ELSE [st |-> [st EXCEPT !.current_back = None],
                  ret |-> Some(Pair(st.count, st.current_back[1])),
                  done |-> TRUE]
       ELSE [st |-> [st EXCEPT !.current_back = None],
             ret |-> Some(Pair(st.count, st.current_back[1])),
             done |-> TRUE]
  ELSE IF IsSome(st.current_front)
  THEN [st |-> [st EXCEPT !.current_front = None],
        ret |-> Some(Pair(1, st.current_front[1])), done |-> TRUE]
  ELSE [st |-> st, ret |-> None, done |-> TRUE]

NextBackNoneNoFallback(st) ==
  IF IsSome(st.current_back)
  THEN IF IsSome(st.current_front)
       THEN IF ItemEq(st.current_front[1], st.current_back[1])
            THEN [st |-> [st EXCEPT !.current_back = None,
                                    !.current_front = None],
                  ret |-> Some(Pair(st.count + 1, st.current_back[1])),
                  done |-> TRUE]
            ELSE [st |-> [st EXCEPT !.current_back = None],
                  ret |-> Some(Pair(st.count, st.current_back[1])),
                  done |-> TRUE]
       ELSE [st |-> [st EXCEPT !.current_back = None],
             ret |-> Some(Pair(st.count, st.current_back[1])),
             done |-> TRUE]
  ELSE [st |-> st, ret |-> None, done |-> TRUE]

NextBackNone(st) ==
  IF IsSome(st.current_back)
  THEN IF IsSome(st.current_front)
       THEN IF ItemEq(st.current_front[1], st.current_back[1])
            THEN [st |-> [st EXCEPT !.current_back = None,
                                    !.current_front = None],
                  ret |-> Some(Pair(st.count + 1, st.current_back[1])),
                  done |-> TRUE]
            ELSE [st |-> [st EXCEPT !.current_back = None],
                  ret |-> Some(Pair(st.count, st.current_back[1])),
                  done |-> TRUE]
       ELSE [st |-> [st EXCEPT !.current_back = None],
             ret |-> Some(Pair(st.count, st.current_back[1])),
             done |-> TRUE]
  ELSE IF IsSome(st.current_front)
  THEN [st |-> [st EXCEPT !.current_front = None],
        ret |-> Some(Pair(1, st.current_front[1])), done |-> TRUE]
  ELSE [st |-> st, ret |-> None, done |-> TRUE]

\* -------------------------------------------------- next_back: the loop
RECURSIVE NextBackLoop(_)
NextBackLoop(st) ==
  LET r == FuseNextBack(st.iter)
      st1 == [st EXCEPT !.iter = r.it]
  IN IF ~IsSome(r.x) THEN NextBackNone(st1)
     ELSE LET s == NextBackSome(st1, r.x[1])
          IN IF s.done THEN s ELSE NextBackLoop(s.st)

\* ------------------------------------------------------------- history
\* Number of calls so far that returned None.
NoneCount == Cardinality({i \in 1..Len(calls) : ~IsSome(calls[i].ret)})

\* RunLengthEncode::new
Init ==
  /\ source \in Sources
  /\ iter = [lo |-> 1, hi |-> Len(source), done |-> FALSE]
  /\ count = 0
  /\ current_front = None
  /\ current_back = None
  /\ calls = <<>>

Install(r, op) ==
  /\ iter' = r.st.iter
  /\ count' = r.st.count
  /\ current_front' = r.st.current_front
  /\ current_back' = r.st.current_back
  /\ calls' = Append(calls, [op |-> op, ret |-> r.ret,
                             pre |-> State, post |-> r.st])
  /\ UNCHANGED source

\* One call of Iterator::next.
Next_ ==
  /\ NoneCount <= MaxExtra
  /\ Install(NextLoop(State), "next")

\* One call of DoubleEndedIterator::next_back.
NextBack ==
  /\ NoneCount <= MaxExtra
  /\ Install(NextBackLoop(State), "next_back")

Next == Next_ \/ NextBack

Spec == Init /\ [][Next]_vars

\* ------------------------------------------- reference encoding of source
\* Single-pass run-length encoding of the source: one record per maximal run
\* of items with equal a, with the positions of its first and last item.
RECURSIVE RefFrom(_, _)
RefFrom(i, acc) ==
  IF i > Len(source) THEN acc
  ELSE IF Len(acc) > 0 /\ acc[Len(acc)].a = source[i]
  THEN RefFrom(i + 1, [acc EXCEPT ![Len(acc)].count = @ + 1,
                                  ![Len(acc)].last = i])
  ELSE RefFrom(i + 1, Append(acc, [a |-> source[i], count |-> 1,
                                   first |-> i, last |-> i]))

Ref == RefFrom(1, <<>>)

\* Index of the reference run that contains source position p.
RunOf(p) == CHOOSE r \in 1..Len(Ref) : Ref[r].first <= p /\ p <= Ref[r].last

\* --------------------------------------------------- views of the history
Drained == \E i \in 1..Len(calls) : ~IsSome(calls[i].ret)

\* Index of the first call that returned None (Len(calls) + 1 if none did).
FirstNone ==
  IF Drained
  THEN CHOOSE i \in 1..Len(calls) :
         /\ ~IsSome(calls[i].ret)
         /\ \A j \in 1..(i - 1) : IsSome(calls[j].ret)
  ELSE Len(calls) + 1

\* The pairs returned before the first None, with the operation returning them.
Emitted ==
  [i \in 1..(FirstNone - 1) |->
     [op |-> calls[i].op, count |-> calls[i].ret[1].count,
      item |-> calls[i].ret[1].item]]

OnlyOp(op) == \A i \in 1..Len(calls) : calls[i].op = op

Alternating ==
  \A i \in 1..(Len(calls) - 1) : i < FirstNone => calls[i].op # calls[i + 1].op

RECURSIVE SumCounts(_, _)
SumCounts(e, n) == IF n = 0 THEN 0 ELSE e[n].count + SumCounts(e, n - 1)

\* Run expected from the k-th call of a strict alternation starting with op0.
AltRun(k, op0) ==
  LET t == (k + 1) \div 2
      op == IF k % 2 = 1 THEN op0
            ELSE IF op0 = "next" THEN "next_back" ELSE "next"
  IN IF op = "next" THEN t ELSE Len(Ref) - t + 1

\* ------------------------------------------------------------------ claims
\* C1: draining by next alone until None yields the reference encoding of
\* the source: one pair per maximal run, in source order, with the run's
\* length as count and the run's first item as representative.
C1_FrontDrainIsReference ==
  (Drained /\ OnlyOp("next")) =>
    /\ Len(Emitted) = Len(Ref)
    /\ \A i \in 1..Len(Emitted) :
         /\ Emitted[i].count = Ref[i].count
         /\ Emitted[i].item = Item(Ref[i].first)

C1_Witness ==
  /\ Drained /\ OnlyOp("next")
  /\ Len(Ref) >= 3
  /\ \E r \in 1..Len(Ref) : Ref[r].count >= 2
  /\ Len(Emitted) = Len(Ref)

\* C2: draining by next_back alone until None yields the reference pairs in
\* reverse order, with the run's length as count and the run's last item
\* (the first one pulled from the back) as representative.
C2_BackDrainIsReverseReference ==
  (Drained /\ OnlyOp("next_back")) =>
    /\ Len(Emitted) = Len(Ref)
    /\ \A i \in 1..Len(Emitted) :
         /\ Emitted[i].count = Ref[Len(Ref) - i + 1].count
         /\ Emitted[i].item = Item(Ref[Len(Ref) - i + 1].last)

C2_Witness ==
  /\ Drained /\ OnlyOp("next_back")
  /\ Len(Ref) >= 3
  /\ \E r \in 1..Len(Ref) : Ref[r].count >= 2
  /\ Len(Emitted) = Len(Ref)
  /\ Emitted[1].item.b = Len(source)

\* C3: for every interleaving of next and next_back continued until a call
\* returns None, the emitted pairs are exactly the reference runs with their
\* reference counts, each run appearing exactly once.
C3_InterleavedMultisetIsReference ==
  Drained =>
    /\ Len(Emitted) = Len(Ref)
    /\ \A r \in 1..Len(Ref) :
         \E i \in 1..Len(Emitted) :
           /\ RunOf(Emitted[i].item.b) = r
           /\ Emitted[i].count = Ref[r].count
           /\ \A j \in 1..Len(Emitted) :
                RunOf(Emitted[j].item.b) = r => j = i

\* C4: strictly alternating calls until the first None yield the runs
\* alternately from the two ends, each pair with the true length of its run
\* and the middle run emitted exactly once.
C4_AlternatingYieldsRunsFromBothEnds ==
  (Drained /\ Alternating) =>
    /\ Len(Emitted) = Len(Ref)
    /\ \A k \in 1..Len(Emitted) :
         /\ RunOf(Emitted[k].item.b) = AltRun(k, calls[1].op)
         /\ Emitted[k].count = Ref[AltRun(k, calls[1].op)].count

\* C5: exhaustion is sticky: once any call has returned None, every later
\* call to next and to next_back returns None.
C5_ExhaustionIsSticky ==
  \A i \in 1..Len(calls) : \A j \in 1..Len(calls) :
    (i < j /\ ~IsSome(calls[i].ret)) => ~IsSome(calls[j].ret)

C5_Witness ==
  /\ Len(source) >= 2
  /\ \E i \in 1..Len(calls) : \E j \in 1..Len(calls) : \E k \in 1..Len(calls) :
       /\ i > 2 /\ i < j /\ i < k
       /\ ~IsSome(calls[i].ret)
       /\ calls[1].op # calls[2].op
       /\ calls[j].op = "next" /\ calls[k].op = "next_back"

\* C6: for every interleaving that drains the adapter, the counts of the
\* emitted pairs sum to the length of the source.
C6_InterleavedSumIsLength ==
  Drained => SumCounts(Emitted, Len(Emitted)) = Len(source)

\* C7: draining by next alone, or by next_back alone, the counts of the
\* emitted pairs sum to the length of the source.
C7_SingleDirectionSumIsLength ==
  (Drained /\ (OnlyOp("next") \/ OnlyOp("next_back"))) =>
    SumCounts(Emitted, Len(Emitted)) = Len(source)

C7_Witness ==
  /\ Drained /\ OnlyOp("next_back")
  /\ Len(source) >= 4
  /\ Len(Emitted) = 2
  /\ SumCounts(Emitted, Len(Emitted)) >= 4

\* C8: under any interleaving, with equality ignoring field b, every pair
\* returned by next carries the first item of its run and every pair
\* returned by next_back carries the last item of its run; a merge at
\* exhaustion therefore surfaces the calling side's pending item.
C8_RepresentativeIsCallersEnd ==
  \A i \in 1..Len(calls) :
    IsSome(calls[i].ret) =>
      LET it == calls[i].ret[1].item
      IN /\ it = Item(it.b)
         /\ calls[i].op = "next" => it.b = Ref[RunOf(it.b)].first
         /\ calls[i].op = "next_back" => it.b = Ref[RunOf(it.b)].last

\* A next call that merged: the back had already finalized the run to the
\* right, so its pending item was the last item of the run next returned.
C8_Witness ==
  \E i \in 1..Len(calls) : \E j \in 1..Len(calls) :
    /\ j < i
    /\ IsSome(calls[i].ret) /\ IsSome(calls[j].ret)
    /\ calls[j].op = "next_back" /\ calls[i].op = "next"
    /\ RunOf(calls[j].ret[1].item.b) = RunOf(calls[i].ret[1].item.b) + 1
    /\ Ref[RunOf(calls[i].ret[1].item.b)].count >= 2
    /\ \A k \in (j + 1)..(i - 1) : calls[k].op = "next"

\* C9: every pair returned by next or next_back has count >= 1.
C9_CountIsPositive ==
  \A i \in 1..Len(calls) :
    IsSome(calls[i].ret) => calls[i].ret[1].count >= 1

C9_Witness ==
  /\ Len(calls) >= 3
  /\ \A i \in 1..3 : IsSome(calls[i].ret)
  /\ calls[1].op = "next_back" /\ calls[2].op = "next"
  /\ iter.done

\* C10: for a source of exactly one item e, the first call, next or
\* next_back, returns (1, e) and every later call returns None.
C10_SingleElementSource ==
  Len(source) = 1 =>
    \A i \in 1..Len(calls) :
      IF i = 1 THEN calls[i].ret = Some(Pair(1, Item(1)))
      ELSE ~IsSome(calls[i].ret)

C10_Witness ==
  /\ Len(source) = 1
  /\ Len(calls) >= 3
  /\ calls[1].op = "next_back"
  /\ calls[2].op = "next"
  /\ calls[3].op = "next_back"

\* ---------------------------------------- which arm a recorded call took
\* The source signalled exhaustion to the call (its None arm returned).
Exhausted(c) == c.post.iter.done

Pulled(c) ==
  c.post.iter.lo > c.pre.iter.lo \/ c.post.iter.hi < c.pre.iter.hi

OwnPre(c) ==
  IF c.op = "next" THEN c.pre.current_front ELSE c.pre.current_back

OtherPre(c) ==
  IF c.op = "next" THEN c.pre.current_back ELSE c.pre.current_front

OtherPost(c) ==
  IF c.op = "next" THEN c.post.current_back ELSE c.post.current_front

\* The calling side held a pending run when exhaustion was observed.
OwnAtEnd(c) == IsSome(OwnPre(c)) \/ Pulled(c)

Finalized(c) == IsSome(c.ret) /\ ~Exhausted(c)

OtherMatches(c) ==
  IsSome(OtherPre(c)) /\ ItemEq(c.ret[1].item, OtherPre(c)[1])

Merged(c) ==
  IsSome(c.ret) /\ Exhausted(c) /\ OwnAtEnd(c) /\ OtherMatches(c)

OwnAlone(c) ==
  IsSome(c.ret) /\ Exhausted(c) /\ OwnAtEnd(c) /\ ~OtherMatches(c)

FellBack(c) == IsSome(c.ret) /\ Exhausted(c) /\ ~OwnAtEnd(c)

\* Source items pulled into a pending run whose first-pulled item is item,
\* given the range it.lo..it.hi that is still unpulled.
AbsorbedFront(it, item) == it.lo - item.b

AbsorbedBack(it, item) == item.b - it.hi

AbsorbedOwn(c) ==
  IF c.op = "next" THEN AbsorbedFront(c.post.iter, c.ret[1].item)
  ELSE AbsorbedBack(c.post.iter, c.ret[1].item)

AbsorbedOther(c) ==
  IF c.op = "next" THEN AbsorbedBack(c.post.iter, OtherPre(c)[1])
  ELSE AbsorbedFront(c.post.iter, OtherPre(c)[1])

\* C11: for an empty source every call to next and to next_back returns
\* None and leaves current_front and current_back None and count 0.
C11_EmptySourceLeavesStateUntouched ==
  Len(source) = 0 =>
    /\ \A i \in 1..Len(calls) :
         /\ ~IsSome(calls[i].ret)
         /\ calls[i].post.count = 0
         /\ calls[i].post.current_front = None
         /\ calls[i].post.current_back = None
    /\ count = 0 /\ current_front = None /\ current_back = None

C11_Witness ==
  /\ Len(source) = 0
  /\ Len(calls) >= 3
  /\ calls[1].op = "next" /\ calls[2].op = "next_back"
  /\ calls[3].op = "next"

\* C12: a call that finds the source exhausted with both pending runs
\* present and equal returns one pair whose count is the number of items
\* absorbed into the two pending runs, the full length of the run, clears
\* both slots, and no later call emits that run again.
C12_MergeEmitsWholeRunOnce ==
  \A i \in 1..Len(calls) :
    Merged(calls[i]) =>
      LET c == calls[i]
          r == RunOf(c.ret[1].item.b)
      IN /\ c.ret[1].count = AbsorbedOwn(c) + AbsorbedOther(c)
         /\ c.ret[1].count = Ref[r].count
         /\ c.post.current_front = None
         /\ c.post.current_back = None
         /\ \A j \in (i + 1)..Len(calls) :
              IsSome(calls[j].ret) => RunOf(calls[j].ret[1].item.b) # r

C12_Witness ==
  \E i \in 1..Len(calls) :
    /\ Merged(calls[i])
    /\ calls[i].op = "next_back"
    /\ calls[i].ret[1].count >= 3
    /\ Len(calls) >= i + 2

\* C13: a call that finds the source exhausted with its own side pending
\* and the other side empty or holding a different run returns its own
\* pending run with count equal to the number of items accumulated into it,
\* also when an earlier call on the other side already saw exhaustion.
C13_OwnRunAtExhaustionHasItsCount ==
  \A i \in 1..Len(calls) :
    OwnAlone(calls[i]) => calls[i].ret[1].count = AbsorbedOwn(calls[i])

\* C14: a call that finds the source exhausted with no pending run of its
\* own returns the other side's pending run with the number of items
\* absorbed into it as count, which is the literal 1, and clears that slot.
C14_FallbackReturnsOtherRunWithCountOne ==
  \A i \in 1..Len(calls) :
    FellBack(calls[i]) =>
      LET c == calls[i]
      IN /\ IsSome(OtherPre(c))
         /\ c.ret[1].item = OtherPre(c)[1]
         /\ c.ret[1].count = AbsorbedOther(c)
         /\ c.ret[1].count = 1
         /\ OtherPost(c) = None

C14_Witness ==
  \E i \in 1..Len(calls) :
    /\ FellBack(calls[i])
    /\ calls[i].op = "next"
    /\ calls[i].pre.count >= 2
    /\ i >= 3

\* Run returned by the i-th call (which returned a pair).
RunAt(i) == RunOf(calls[i].ret[1].item.b)

\* C15: under any interleaving the runs returned by successive next calls
\* are at strictly increasing run positions, those returned by successive
\* next_back calls at strictly decreasing ones, and every run returned by
\* next lies before every run returned by next_back.
C15_RunsComeInOrderFromBothEnds ==
  \A i \in 1..Len(calls) : \A j \in 1..Len(calls) :
    (IsSome(calls[i].ret) /\ IsSome(calls[j].ret)) =>
      /\ (i < j /\ calls[i].op = "next" /\ calls[j].op = "next")
           => RunAt(i) < RunAt(j)
      /\ (i < j /\ calls[i].op = "next_back" /\ calls[j].op = "next_back")
           => RunAt(i) > RunAt(j)
      /\ (calls[i].op = "next" /\ calls[j].op = "next_back")
           => RunAt(i) < RunAt(j)

C15_Witness ==
  /\ Len(calls) >= 5
  /\ \A i \in 1..4 : IsSome(calls[i].ret)
  /\ calls[1].op = "next_back" /\ calls[2].op = "next"
  /\ calls[3].op = "next" /\ calls[4].op = "next_back"
  /\ ~IsSome(calls[5].ret)

\* C16: for a source with R maximal runs and any interleaving, exactly R
\* calls return a pair before the first None, one for each run: no run is
\* dropped, split over two pairs or emitted twice.
C16_OnePairPerRun ==
  Drained =>
    /\ Len(Emitted) = Len(Ref)
    /\ \A r \in 1..Len(Ref) :
         Cardinality({i \in 1..Len(Emitted) : RunAt(i) = r}) = 1

C16_Witness ==
  /\ Drained
  /\ Len(Ref) = 4
  /\ Len(Emitted) = 4
  /\ \E i \in 1..4 : Merged(calls[i])
  /\ \E i \in 1..4 : Ref[i].count >= 2

\* C17: a call that returns by finalizing its own run, or by returning its
\* own pending run at exhaustion while the other side holds a different
\* run, leaves the other side's slot as it was; the other side's slot is
\* changed only by the merge and fallback arms.
C17_OtherSlotChangedOnlyByMergeAndFallback ==
  \A i \in 1..Len(calls) :
    LET c == calls[i]
    IN /\ (Finalized(c) \/ (OwnAlone(c) /\ IsSome(OtherPre(c))))
            => OtherPost(c) = OtherPre(c)
       /\ OtherPost(c) # OtherPre(c) => (Merged(c) \/ FellBack(c))

C17_Witness ==
  \E i \in 1..Len(calls) : \E j \in 1..Len(calls) :
    /\ OwnAlone(calls[i]) /\ IsSome(OtherPre(calls[i]))
    /\ calls[i].op = "next"
    /\ Finalized(calls[j]) /\ IsSome(OtherPre(calls[j]))
    /\ calls[j].op = "next_back"

\* Index of the last call made on side op (0 if there was none).
LastCallOf(op) ==
  IF \E i \in 1..Len(calls) : calls[i].op = op
  THEN CHOOSE i \in 1..Len(calls) :
         /\ calls[i].op = op
         /\ \A j \in (i + 1)..Len(calls) : calls[j].op # op
  ELSE 0

\* C19: between calls, each pending slot that is Some has absorbed exactly
\* one source item, the one that ended the run last emitted on that side.
C19_PendingSlotHoldsOneItem ==
  /\ IsSome(current_front) =>
       /\ AbsorbedFront(iter, current_front[1]) = 1
       /\ LastCallOf("next") > 0
       /\ Finalized(calls[LastCallOf("next")])
       /\ current_front[1].b = Ref[RunAt(LastCallOf("next"))].last + 1
  /\ IsSome(current_back) =>
       /\ AbsorbedBack(iter, current_back[1]) = 1
       /\ LastCallOf("next_back") > 0
       /\ Finalized(calls[LastCallOf("next_back")])
       /\ current_back[1].b = Ref[RunAt(LastCallOf("next_back"))].first - 1

C19_Witness ==
  /\ IsSome(current_front) /\ IsSome(current_back)
  /\ ~ItemEq(current_front[1], current_back[1])
  /\ iter.lo > iter.hi
  /\ Len(calls) >= 3

\* ------------------------------------ the two-slot machine of the design
\* Each side keeps its own optional (representative, count) slot.
Slot(item, n) == Some([item |-> item, count |-> n])

TwoSlotInit ==
  [iter |-> [lo |-> 1, hi |-> Len(source), done |-> FALSE],
   front |-> None, back |-> None]

RECURSIVE TwoSlotPull(_, _)
TwoSlotPull(st, op) ==
  LET own == IF op = "next" THEN st.front ELSE st.back
      other == IF op = "next" THEN st.back ELSE st.front
      r == IF op = "next" THEN FuseNext(st.iter) ELSE FuseNextBack(st.iter)
      Put(o, t) ==
        IF op = "next" THEN [iter |-> r.it, front |-> o, back |-> t]
        ELSE [iter |-> r.it, front |-> t, back |-> o]
  IN IF IsSome(r.x)
     THEN IF IsSome(own) /\ ItemEq(r.x[1], own[1].item)
          THEN TwoSlotPull(Put(Slot(own[1].item, own[1].count + 1), other), op)
          ELSE IF IsSome(own)
          THEN [st |-> Put(Slot(r.x[1], 1), other),
                ret |-> Some(Pair(own[1].count, own[1].item))]
          ELSE TwoSlotPull(Put(Slot(r.x[1], 1), other), op)
     ELSE IF IsSome(own)
          THEN IF IsSome(other) /\ ItemEq(own[1].item, other[1].item)
               THEN [st |-> Put(None, None),
                     ret |-> Some(Pair(own[1].count + other[1].count,
                                       own[1].item))]
               ELSE [st |-> Put(None, other),
                     ret |-> Some(Pair(own[1].count, own[1].item))]
          ELSE IF IsSome(other)
          THEN [st |-> Put(None, None),
                ret |-> Some(Pair(other[1].count, other[1].item))]
          ELSE [st |-> Put(None, None), ret |-> None]

\* State of the two-slot machine and its results after the first k calls.
RECURSIVE TwoSlotAfter(_)
TwoSlotAfter(k) ==
  IF k = 0 THEN [st |-> TwoSlotInit, rets |-> <<>>]
  ELSE LET p == TwoSlotAfter(k - 1)
           q == TwoSlotPull(p.st, calls[k].op)
       IN [st |-> q.st, rets |-> Append(p.rets, q.ret)]

\* C18: the implementation with its one shared count returns, at every call
\* of every sequence of next/next_back calls, the same result as the
\* machine that keeps an independent (representative, count) slot per side.
C18_SharedCountMatchesTwoSlotMachine ==
  \A i \in 1..Len(calls) : calls[i].ret = TwoSlotAfter(Len(calls)).rets[i]

====
